---- MODULE Spec2Model ----
(***************************************************************************)
(* Blud-Dona client screens (src/src/pages/Home.tsx): the dashboard        *)
(* (Home), the request-creation form (NewRequest), the profile page        *)
(* (Profile) and the session and Data Gateway they talk to.                *)
(*                                                                         *)
(* One screen is mounted at a time.  A promise continuation runs in the    *)
(* same step as the settlement of the promise it awaits (microtasks run    *)
(* before the next event), so every action below is one event of the       *)
(* browser's event loop together with the whole continuation it triggers.  *)
(*                                                                         *)
(* JavaScript values: undefined is the string Undefined; an optional       *)
(* object (user.location) is a set holding at most one record; a number    *)
(* is the fraction [n, d] so that non-integers can be represented; a       *)
(* string whose length or format the code checks (name, email) is the      *)
(* sequence of its characters.                                             *)
(***************************************************************************)
EXTENDS Integers, Sequences, FiniteSets, TLC

VARIABLES
    user,          \* useAuth().user: a user record, or NoUser for null
    mounted,       \* the screen the router has mounted
    dbRequests,    \* Data Gateway: the stored blood requests
    dbAppointments,\* Data Gateway: the stored appointments
    requests,      \* Home: useState<BloodRequest[]>
    appointments,  \* Home: useState<Appointment[]>
    notifications, \* Home: useState<Notification[]>
    loading,       \* Home: useState(true)
    runs,          \* Home: the fetchData invocations still awaiting a promise
    values,        \* NewRequest: the form's field values
    isSubmitted,   \* NewRequest: the form's handleSubmit has run
    errors,        \* NewRequest: the form's field-level errors
    isSubmitting,  \* NewRequest: useState(false)
    createCalls,   \* NewRequest: onSubmit invocations awaiting their call
    lastCreate,    \* Data Gateway: the payload of the latest create call
    profileDefaults, \* Profile: the form's defaultValues, fixed at mount
    profileValues, \* Profile: the form's field values
    profileSubmitted, \* Profile: formState.isSubmitted
    isUpdating,    \* Profile: useState(false)
    updateCalls,   \* Profile: onSubmit invocations awaiting their call
    lastUpdate,    \* Data Gateway: the arguments of the latest update call
    toast          \* the title of the notification last shown by toast(...)

sessionVars == <<user>>
gatewayVars == <<dbRequests, dbAppointments>>
homeVars == <<requests, appointments, notifications, loading, runs>>
newRequestVars == <<values, isSubmitted, errors, isSubmitting, createCalls,
                    lastCreate>>
profileVars == <<profileDefaults, profileValues, profileSubmitted, isUpdating,
                 updateCalls, lastUpdate>>
vars == <<user, mounted, dbRequests, dbAppointments, requests, appointments,
          notifications, loading, runs, values, isSubmitted, errors,
          isSubmitting, createCalls, lastCreate, profileDefaults,
          profileValues, profileSubmitted, isUpdating, updateCalls,
          lastUpdate, toast>>

(***************************************************************************)
(* Bounds of the model.                                                    *)
(***************************************************************************)
\* fetchData invocations that may be awaiting a promise at the same time
MaxRuns == 2
\* createBloodRequest calls that may be unsettled at the same time
MaxCalls == 1
\* updateUser calls that may be unsettled at the same time
MaxUpdates == 2
\* the instants at which the dashboard may be rendered are 0..MaxTime
MaxTime == 2

Instants == 0..MaxTime

Undefined == "undefined"

RemoveAt(s, i) == SubSeq(s, 1, i - 1) \o SubSeq(s, i + 1, Len(s))

Range(s) == {s[i] : i \in 1..Len(s)}

(***************************************************************************)
(* Types of @/types as this file uses them.                                *)
(***************************************************************************)
DONOR == "donor"
REQUESTER == "requester"
ADMIN == "admin"
UserRole == {DONOR, REQUESTER, ADMIN}

UrgencyLevel == {"low", "medium", "high", "critical"}
MEDIUM == "medium"

BloodType == {"A+", "O-"}

PENDING == "pending"

(***************************************************************************)
(* Session Provider: the users the session may hold.                       *)
(***************************************************************************)
Location(lat, lng, address) ==
    [latitude |-> lat, longitude |-> lng, address |-> address,
     city |-> "Pune", state |-> "MH", zipCode |-> "41101", country |-> "IN"]

NoUser ==
    [id |-> "", name |-> <<>>, email |-> <<>>, role |-> "null",
     phoneNumber |-> Undefined, bloodType |-> Undefined, location |-> {}]

Users ==
    { [id |-> "1", name |-> <<"D", "a", "n", "a">>,
       email |-> <<"d", "@", "x", ".", "i", "o">>, role |-> DONOR,
       phoneNumber |-> "555-0101", bloodType |-> "O-",
       location |-> {Location(18, 73, "1 Hill Rd")}],
      [id |-> "2", name |-> <<"R", "a", "v", "i">>,
       email |-> <<"r", "@", "x", ".", "i", "o">>, role |-> REQUESTER,
       phoneNumber |-> "555-0102", bloodType |-> Undefined,
       location |-> {}],
      [id |-> "3", name |-> <<"A", "s", "h", "a">>,
       email |-> <<"a", "@", "x", ".", "i", "o">>, role |-> ADMIN,
       phoneNumber |-> Undefined, bloodType |-> Undefined,
       location |-> {Location(19, 72, "3 Sea Rd")}] }

\* JavaScript truthiness of a string
Truthy(s) == s /= "" /\ s /= Undefined

(***************************************************************************)
(* Data Gateway (@/services/api).                                          *)
(***************************************************************************)
Request(id, requesterId, urgency) ==
    [id |-> id, requesterId |-> requesterId, urgency |-> urgency]

Appointment(id, donorId, date) ==
    [id |-> id, donorId |-> donorId, date |-> date]

Notification(id, userId, read) ==
    [id |-> id, userId |-> userId, read |-> read]

RequestSeeds ==
    { <<>>,
      <<Request("a", "9", "critical"), Request("b", "2", "medium")>>,
      <<Request("a", "2", "high"), Request("b", "9", "low"),
        Request("c", "2", "low"), Request("d", "1", "critical")>> }

AppointmentSeeds ==
    { <<>>,
      <<Appointment("p", "1", 0), Appointment("q", "7", 1),
        Appointment("r", "1", 2), Appointment("s", "2", 3)>> }

getNotifications(userId) ==
    CASE userId = "1" -> <<Notification("m", "1", FALSE),
                           Notification("n", "1", TRUE)>>
      [] userId = "2" -> <<Notification("o", "2", FALSE)>>
      [] OTHER -> <<>>

(***************************************************************************)
(* NewRequest: the form's values, requestSchema and the create payload.    *)
(***************************************************************************)
\* a JavaScript number as the fraction n/d
Num(k) == [n |-> k, d |-> 1]

Half(k) == [n |-> k, d |-> 2]

AtLeast(q, k) == q.n >= k * q.d

AtMost(q, k) == q.n <= k * q.d

MinQuantity == 1
MaxQuantity == 10

\* a date-only string parses to midnight UTC of its day; instants are days
ParseDate(s) ==
    CASE s = "1970-01-01" -> 0
      [] s = "1970-01-02" -> 1
      [] s = "1970-01-03" -> 2
      [] OTHER -> 3

\* useForm({ defaultValues }): bloodType and expireAt start undefined
defaultValues ==
    [bloodType |-> Undefined, quantity |-> Num(1), urgency |-> MEDIUM,
     notes |-> "", expireAt |-> Undefined]

\* the values field.onChange may be handed, valid and invalid
BloodTypeInputs == {"A+", "Z"}
QuantityInputs == {Num(0), Num(1), Half(5), Num(10), Num(11)}
UrgencyInputs == {MEDIUM, "critical", Undefined}
ExpireAtInputs == {"", "1970-01-02"}

FieldError(field, message) == [field |-> field, message |-> message]

\* mutant: the upper bound of quantity is not checked
quantityErrors_noMax(q) ==
    IF ~AtLeast(q, MinQuantity)
    THEN {FieldError("quantity", "Quantity must be at least 1 unit")}
    ELSE {}

\* z.number().min(1, ...).max(10, ...)
quantityErrors(q) ==
    IF ~AtLeast(q, MinQuantity)
    THEN {FieldError("quantity", "Quantity must be at least 1 unit")}
    ELSE IF ~AtMost(q, MaxQuantity)
         THEN {FieldError("quantity", "Quantity cannot exceed 10 units")}
         ELSE {}

\* z.nativeEnum(enum, { required_error })
enumErrors(field, value, enum, required) ==
    IF value = Undefined THEN {FieldError(field, required)}
    ELSE IF value \notin enum THEN {FieldError(field, "Invalid enum value")}
         ELSE {}

\* mutant: an expiry that some evaluation instant has reached is refused
expireAtErrors_afterToday(s) ==
    IF Truthy(s) /\ \E today \in Instants : ParseDate(s) <= today
    THEN {FieldError("expireAt", "Expiry must be after today")}
    ELSE {}

\* expireAt: z.string().optional() accepts every string and undefined
expireAtErrors(s) == {}

\* zodResolver(requestSchema): the errors of the form values v; notes is
\* z.string().optional() and holds a string in every state of the form
requestSchema(v) ==
    expireAtErrors(v.expireAt)
    \cup
    enumErrors("bloodType", v.bloodType, BloodType, "Please select a blood type")
    \cup quantityErrors(v.quantity)
    \cup enumErrors("urgency", v.urgency, UrgencyLevel,
                    "Please select an urgency level")

placeholderLocation ==
    [latitude |-> 0, longitude |-> 0, address |-> "Unknown",
     city |-> "Unknown", state |-> "Unknown", zipCode |-> "00000",
     country |-> "Unknown"]

\* mutant: the stored location is never used
payloadLocation_placeholder(u) == placeholderLocation

\* user.location || { latitude: 0, ... }
payloadLocation(u) ==
    IF u.location /= {} THEN CHOOSE l \in u.location : TRUE
    ELSE placeholderLocation

\* mutant: the status is taken from the form's urgency
payloadStatus_byUrgency(data) ==
    IF data.urgency = "critical" THEN "approved" ELSE PENDING

\* status: RequestStatus.PENDING
payloadStatus(data) == PENDING

\* data.expireAt ? new Date(data.expireAt) : undefined, as a set holding the
\* instant of the Date, empty for undefined
payloadExpireAt(data) ==
    IF Truthy(data.expireAt) THEN {ParseDate(data.expireAt)} ELSE {}

\* mutant: the request is attributed to a fixed requester
createPayload_fixedRequester(u, data) ==
    [requesterId |-> "9", requesterName |-> <<"N", "o">>,
     bloodType |-> data.bloodType, quantity |-> data.quantity,
     urgency |-> data.urgency, location |-> payloadLocation(u),
     status |-> payloadStatus(data), notes |-> data.notes,
     expireAt |-> payloadExpireAt(data)]

\* the argument of api.createBloodRequest in onSubmit
createPayload(u, data) ==
    [requesterId |-> u.id, requesterName |-> u.name,
     bloodType |-> data.bloodType, quantity |-> data.quantity,
     urgency |-> data.urgency, location |-> payloadLocation(u),
     status |-> payloadStatus(data), notes |-> data.notes,
     expireAt |-> payloadExpireAt(data)]

\* no create call has been made
NoCreate == [status |-> "none"]

(***************************************************************************)
(* Profile: the form's values, profileSchema and the update payload.       *)
(***************************************************************************)
\* x || "" for an optional string
OrBlank(x) == IF Truthy(x) THEN x ELSE ""

\* user?.location?.[key] || ""
LocationField(u, key) ==
    IF u.location = {} THEN ""
    ELSE OrBlank((CHOOSE l \in u.location : TRUE)[key])

\* useForm({ defaultValues }) of Profile, computed from the session user of
\* the render that mounts the form; u is NoUser while the session has none
profileDefaultValues(u) ==
    [name |-> u.name, email |-> u.email,
     phoneNumber |-> OrBlank(u.phoneNumber),
     address |-> LocationField(u, "address"),
     city |-> LocationField(u, "city"),
     state |-> LocationField(u, "state"),
     zipCode |-> LocationField(u, "zipCode"),
     country |-> LocationField(u, "country"),
     bloodType |-> u.bloodType]

\* the keys of profileSchema
ProfileFields ==
    {"name", "email", "phoneNumber", "address", "city", "state", "zipCode",
     "country", "bloodType"}

\* the values field.onChange may be handed, valid and invalid
NameInputs == {<<"N">>, <<"N", "o">>}
EmailInputs == {<<"n", "@", "x", ".", "i", "o">>, <<"n", "@", "x">>}
AddressInputs == {"9 New St"}

MinNameLength == 2

\* mutant: a name of one character passes
nameErrors_nonEmpty(name) ==
    IF Len(name) < 1
    THEN {FieldError("name", "Name must be at least 2 characters")}
    ELSE {}

\* z.string().min(2, ...)
nameErrors(name) ==
    IF Len(name) < MinNameLength
    THEN {FieldError("name", "Name must be at least 2 characters")}
    ELSE {}

\* the positions of character c in the text s
Positions(s, c) == {i \in 1..Len(s) : s[i] = c}

\* z.string().email(): one "@"; before it a non-empty local part that does
\* not start or end with a dot; after it dot-separated non-empty labels, at
\* least two of them, the last of two or more letters; no two dots in a row
IsEmail(s) ==
    /\ Cardinality(Positions(s, "@")) = 1
    /\ LET at == CHOOSE i \in Positions(s, "@") : TRUE
           dots == Positions(s, ".")
       IN /\ at > 1
          /\ s[1] /= "."
          /\ s[at - 1] /= "."
          /\ \A i \in dots : i + 1 \notin dots
          /\ at + 1 \notin dots
          /\ \E i \in dots : i > at
          /\ \A i \in dots : i <= Len(s) - 2

emailErrors(email) ==
    IF IsEmail(email) THEN {}
    ELSE {FieldError("email", "Please enter a valid email")}

\* z.nativeEnum(BloodType).optional()
optionalEnumErrors(field, value, enum) ==
    IF value = Undefined THEN {} ELSE enumErrors(field, value, enum, "Required")

\* zodResolver(profileSchema): the errors of the form values v; the other
\* fields are z.string().optional() and hold a string in every state
profileSchema(v) ==
    nameErrors(v.name)
    \cup emailErrors(v.email)
    \cup optionalEnumErrors("bloodType", v.bloodType, BloodType)

\* { ...base, ...over }: the keys of both, over's value where both have one
Spread(base, over) ==
    [k \in DOMAIN base \cup DOMAIN over |->
        IF k \in DOMAIN over THEN over[k] ELSE base[k]]

\* mutant: the coordinates are always the placeholder's
locationBase_zero(u) == [latitude |-> 0, longitude |-> 0]

\* user.location || { latitude: 0, longitude: 0 }
locationBase(u) ==
    IF u.location /= {} THEN CHOOSE l \in u.location : TRUE
    ELSE [latitude |-> 0, longitude |-> 0]

\* mutant: the whole user record is spread into the payload
updateData_wholeUser(u, data) ==
    [name |-> data.name, email |-> data.email,
     phoneNumber |-> data.phoneNumber,
     location |-> Spread(locationBase(u),
                         [address |-> data.address, city |-> data.city,
                          state |-> data.state, zipCode |-> data.zipCode,
                          country |-> data.country]),
     bloodType |-> data.bloodType, role |-> u.role]

\* the second argument of api.updateUser in onSubmit
updateData(u, data) ==
    [name |-> data.name, email |-> data.email,
     phoneNumber |-> data.phoneNumber,
     location |-> Spread(locationBase(u),
                         [address |-> data.address, city |-> data.city,
                          state |-> data.state, zipCode |-> data.zipCode,
                          country |-> data.country]),
     bloodType |-> data.bloodType]

\* api.updateUser(user.id, { ... })
updateCall(u, data) == [id |-> u.id, data |-> updateData(u, data)]

\* no update call has been made
NoUpdate == [status |-> "none"]

\* mutant: the resolved update is merged into the session user
userAfterUpdate_merged(u, update) ==
    [u EXCEPT !.name = update.data.name, !.email = update.data.email]

\* the session user after the update call resolves: onSubmit discards the
\* value the call resolves to, and nothing in Profile sets the user
userAfterUpdate(u, update) == u

(***************************************************************************)
(* Home: view-state derivation (the render after the loading guard).       *)
(***************************************************************************)
\* mutant: the requester branch forgets its filter
filteredRequests_unfiltered(u, reqs) == reqs

\* mutant: the requester's filter is applied whatever the role
filteredRequests_everyRole(u, reqs) ==
    SelectSeq(reqs, LAMBDA request : request.requesterId = u.id)

filteredRequests(u, reqs) ==
    IF u.role = DONOR THEN reqs
    ELSE IF u.role = REQUESTER
         THEN SelectSeq(reqs, LAMBDA request : request.requesterId = u.id)
         ELSE reqs

\* mutant: the donor branch forgets its filter
filteredAppointments_unfiltered(u, apps) == apps

filteredAppointments(u, apps) ==
    IF u.role = DONOR
    THEN SelectSeq(apps, LAMBDA appointment : appointment.donorId = u.id)
    ELSE apps

\* mutant: "high" is left out of the urgent levels
IsUrgent_criticalOnly(request) == request.urgency = "critical"

IsUrgent(request) == request.urgency = "high" \/ request.urgency = "critical"

urgentRequests(u, reqs) == SelectSeq(filteredRequests(u, reqs), IsUrgent)

\* {urgentRequests.length} urgent needs
urgentCount(u, reqs) == Len(urgentRequests(u, reqs))

\* mutant: an appointment at the evaluation instant counts as upcoming
IsUpcoming_orNow(appointment, now) == appointment.date >= now

IsUpcoming(appointment, now) == appointment.date > now

upcomingAppointments(u, apps, now) ==
    SelectSeq(filteredAppointments(u, apps),
              LAMBDA appointment : IsUpcoming(appointment, now))

unreadNotifications(notifs) == SelectSeq(notifs, LAMBDA n : ~n.read)

\* the dashboard is drawn: neither the spinner nor the null render
Rendered == mounted = "Home" /\ ~loading /\ user /= NoUser

(***************************************************************************)
(* Home: fetchData.                                                        *)
(***************************************************************************)
NewRun(u) ==
    [user |-> u, requestsData |-> <<>>, appointmentsData |-> <<>>,
     rq |-> "pending", ap |-> "pending", nt |-> "none", live |-> TRUE]

\* the effect of useEffect(..., [user]) for session user u
StartFetch(u, rs) == IF u = NoUser THEN rs ELSE Append(rs, NewRun(u))

\* finally { setLoading(false) } of run r; a state setter of an unmounted
\* component instance does nothing
FinallyLoading(r) == IF r.live THEN FALSE ELSE loading

\* mutant: the join waits for the requests fetch only
Joined_requestsOnly(r) == r.rq = "ok"

\* the run's state after the promise of Promise.all resolved: the
\* notifications fetch is issued, or the run finishes with its two setters
Joined(r) == r.rq = "ok" /\ r.ap = "ok"

\* mutant: only the notifications are stored
StoreResults_notificationsOnly(r, notifs, storeNotifs) ==
    /\ notifications' = IF r.live /\ storeNotifs THEN notifs ELSE notifications
    /\ loading' = FinallyLoading(r)
    /\ UNCHANGED <<requests, appointments>>

\* setNotifications, setRequests, setAppointments in one tick, then finally
StoreResults(r, notifs, storeNotifs) ==
    /\ requests' = IF r.live THEN r.requestsData ELSE requests
    /\ appointments' = IF r.live THEN r.appointmentsData ELSE appointments
    /\ notifications' = IF r.live /\ storeNotifs THEN notifs ELSE notifications
    /\ loading' = FinallyLoading(r)

AfterResolve(i, r) ==
    IF ~Joined(r)
    THEN /\ runs' = [runs EXCEPT ![i] = r]
         /\ UNCHANGED <<requests, appointments, notifications, loading>>
    ELSE IF Truthy(r.user.id)
         THEN /\ runs' = [runs EXCEPT ![i] = [r EXCEPT !.nt = "pending"]]
              /\ UNCHANGED <<requests, appointments, notifications, loading>>
         ELSE /\ runs' = RemoveAt(runs, i)
              /\ StoreResults(r, <<>>, FALSE)

\* mutant: the catch block is not followed by finally
Caught_noFinally(i) ==
    /\ runs' = RemoveAt(runs, i)
    /\ UNCHANGED <<requests, appointments, notifications, loading>>

\* catch { console.error(...) } finally { setLoading(false) }
Caught(i) ==
    /\ runs' = RemoveAt(runs, i)
    /\ loading' = FinallyLoading(runs[i])
    /\ UNCHANGED <<requests, appointments, notifications>>

RequestsResolve(i) ==
    /\ i \in 1..Len(runs)
    /\ runs[i].rq = "pending"
    /\ AfterResolve(i, [runs[i] EXCEPT !.rq = "ok", !.requestsData = dbRequests])
    /\ UNCHANGED <<sessionVars, mounted, gatewayVars, newRequestVars, profileVars,
                   toast>>

RequestsReject(i) ==
    /\ i \in 1..Len(runs)
    /\ runs[i].rq = "pending"
    /\ Caught(i)
    /\ UNCHANGED <<sessionVars, mounted, gatewayVars, newRequestVars, profileVars,
                   toast>>

AppointmentsResolve(i) ==
    /\ i \in 1..Len(runs)
    /\ runs[i].ap = "pending"
    /\ AfterResolve(i, [runs[i] EXCEPT !.ap = "ok",
                                       !.appointmentsData = dbAppointments])
    /\ UNCHANGED <<sessionVars, mounted, gatewayVars, newRequestVars, profileVars,
                   toast>>

AppointmentsReject(i) ==
    /\ i \in 1..Len(runs)
    /\ runs[i].ap = "pending"
    /\ Caught(i)
    /\ UNCHANGED <<sessionVars, mounted, gatewayVars, newRequestVars, profileVars,
                   toast>>

NotificationsResolve(i) ==
    /\ i \in 1..Len(runs)
    /\ runs[i].nt = "pending"
    /\ runs' = RemoveAt(runs, i)
    /\ StoreResults(runs[i], getNotifications(runs[i].user.id), TRUE)
    /\ UNCHANGED <<sessionVars, mounted, gatewayVars, newRequestVars, profileVars,
                   toast>>

NotificationsReject(i) ==
    /\ i \in 1..Len(runs)
    /\ runs[i].nt = "pending"
    /\ Caught(i)
    /\ UNCHANGED <<sessionVars, mounted, gatewayVars, newRequestVars, profileVars,
                   toast>>

(***************************************************************************)
(* Home: mounting and unmounting.                                          *)
(***************************************************************************)
Orphaned(rs) == [i \in 1..Len(rs) |-> [rs[i] EXCEPT !.live = FALSE]]

\* the state of a Home that is not mounted; its runs go on unobserved
HomeUnmounted ==
    /\ requests' = <<>>
    /\ appointments' = <<>>
    /\ notifications' = <<>>
    /\ loading' = TRUE
    /\ runs' = Orphaned(runs)

MountHome ==
    /\ mounted \in {"Other", "Requests"}
    /\ user /= NoUser => Len(runs) < MaxRuns
    /\ mounted' = "Home"
    /\ requests' = <<>>
    /\ appointments' = <<>>
    /\ notifications' = <<>>
    /\ loading' = (user /= NoUser)
    /\ runs' = StartFetch(user, runs)
    /\ UNCHANGED <<sessionVars, gatewayVars, newRequestVars, profileVars, toast>>

UnmountHome ==
    /\ mounted = "Home"
    /\ mounted' = "Other"
    /\ HomeUnmounted
    /\ UNCHANGED <<sessionVars, gatewayVars, newRequestVars, profileVars, toast>>

(***************************************************************************)
(* Session Provider: the current user changes (sign-in, sign-out, a new    *)
(* user object).  A mounted Home re-runs its effect.                       *)
(***************************************************************************)
SetUser(u) ==
    /\ u \in Users \cup {NoUser}
    /\ u /= user
    /\ (mounted = "Home" /\ u /= NoUser) => Len(runs) < MaxRuns
    /\ user' = u
    /\ IF mounted = "Home"
       THEN /\ runs' = StartFetch(u, runs)
            /\ loading' = IF u = NoUser THEN FALSE ELSE loading
       ELSE UNCHANGED <<runs, loading>>
    /\ UNCHANGED <<mounted, gatewayVars, requests, appointments, notifications,
                   newRequestVars, profileVars, toast>>

(***************************************************************************)
(* NewRequest: mounting, leaving, editing.                                 *)
(***************************************************************************)
OrphanedCalls(cs) == [i \in 1..Len(cs) |-> [cs[i] EXCEPT !.live = FALSE]]

\* the state of a NewRequest that is not mounted; the calls its onSubmit
\* awaits go on, and their continuations still toast and navigate
NewRequestUnmounted(cs) ==
    /\ values' = defaultValues
    /\ isSubmitted' = FALSE
    /\ errors' = {}
    /\ isSubmitting' = FALSE
    /\ createCalls' = OrphanedCalls(cs)

\* the state of a Profile that is not mounted; the calls its onSubmit awaits
\* go on, and their continuations still toast
ProfileUnmounted ==
    /\ profileDefaults' = profileDefaultValues(NoUser)
    /\ profileValues' = profileDefaultValues(NoUser)
    /\ profileSubmitted' = FALSE
    /\ isUpdating' = FALSE
    /\ updateCalls' = OrphanedCalls(updateCalls)

MountNewRequest ==
    /\ mounted \in {"Other", "Requests"}
    /\ mounted' = "NewRequest"
    /\ UNCHANGED <<sessionVars, gatewayVars, homeVars, newRequestVars,
                   profileVars, toast>>

\* the Cancel button: navigate("/requests")
Cancel ==
    /\ mounted = "NewRequest"
    /\ mounted' = "Requests"
    /\ NewRequestUnmounted(createCalls)
    /\ UNCHANGED <<sessionVars, gatewayVars, homeVars, lastCreate, profileVars,
                   toast>>

\* the back arrow: navigate(-1)
Back ==
    /\ mounted = "NewRequest"
    /\ mounted' = "Other"
    /\ NewRequestUnmounted(createCalls)
    /\ UNCHANGED <<sessionVars, gatewayVars, homeVars, lastCreate, profileVars,
                   toast>>

\* field.onChange: the form re-validates once it has been submitted
Change(v) ==
    /\ mounted = "NewRequest"
    /\ v /= values
    /\ values' = v
    /\ errors' = IF isSubmitted THEN requestSchema(v) ELSE errors
    /\ UNCHANGED <<sessionVars, mounted, gatewayVars, homeVars, isSubmitted,
                   isSubmitting, createCalls, lastCreate, profileVars, toast>>

ChangeBloodType(x) ==
    x \in BloodTypeInputs /\ Change([values EXCEPT !.bloodType = x])

ChangeQuantity(x) ==
    x \in QuantityInputs /\ Change([values EXCEPT !.quantity = x])

ChangeUrgency(x) ==
    x \in UrgencyInputs /\ Change([values EXCEPT !.urgency = x])

ChangeExpireAt(x) ==
    x \in ExpireAtInputs /\ Change([values EXCEPT !.expireAt = x])

(***************************************************************************)
(* NewRequest: form.handleSubmit(onSubmit) and the settling of the call.   *)
(***************************************************************************)
\* onSubmit(data) up to its await
onSubmit(data) ==
    IF user = NoUser
    THEN UNCHANGED <<isSubmitting, createCalls, lastCreate>>
    ELSE /\ Len(createCalls) < MaxCalls
         /\ isSubmitting' = TRUE
         /\ createCalls' = Append(createCalls, [live |-> TRUE])
         /\ lastCreate' = createPayload(user, data)

\* the submit button is disabled while isSubmitting
HandleSubmit ==
    /\ mounted = "NewRequest"
    /\ ~isSubmitting
    /\ isSubmitted' = TRUE
    /\ errors' = requestSchema(values)
    /\ IF requestSchema(values) /= {}
       THEN UNCHANGED <<isSubmitting, createCalls, lastCreate>>
       ELSE onSubmit(values)
    /\ UNCHANGED <<sessionVars, mounted, gatewayVars, homeVars, values,
                   profileVars, toast>>

\* mutant: the flag is reset in the try block only, not in finally
FinallySubmitting_tryOnly(call, ok) ==
    IF call.live /\ ok THEN FALSE ELSE isSubmitting

\* finally { setIsSubmitting(false) }; a state setter of an unmounted
\* component instance does nothing
FinallySubmitting(call, ok) == IF call.live THEN FALSE ELSE isSubmitting

\* the call resolved: toast, navigate("/requests"), finally
CreateResolve(i) ==
    /\ i \in 1..Len(createCalls)
    /\ toast' = "Request created"
    /\ mounted' = "Requests"
    /\ IF mounted = "NewRequest"
       THEN NewRequestUnmounted(RemoveAt(createCalls, i))
       ELSE /\ createCalls' = RemoveAt(createCalls, i)
            /\ isSubmitting' = FinallySubmitting(createCalls[i], TRUE)
            /\ UNCHANGED <<values, isSubmitted, errors>>
    /\ IF mounted = "Home" THEN HomeUnmounted ELSE UNCHANGED homeVars
    /\ IF mounted = "Profile"
       THEN ProfileUnmounted
       ELSE UNCHANGED <<profileDefaults, profileValues, profileSubmitted,
                        isUpdating, updateCalls>>
    /\ UNCHANGED <<sessionVars, gatewayVars, lastCreate, lastUpdate>>

\* the call rejected: the destructive toast, finally
CreateReject(i) ==
    /\ i \in 1..Len(createCalls)
    /\ toast' = "Error"
    /\ createCalls' = RemoveAt(createCalls, i)
    /\ isSubmitting' = FinallySubmitting(createCalls[i], FALSE)
    /\ UNCHANGED <<sessionVars, mounted, gatewayVars, homeVars, values,
                   isSubmitted, errors, lastCreate, profileVars>>

(***************************************************************************)
(* Profile: mounting, the fields, form.handleSubmit(onSubmit) and the      *)
(* settling of the update call.  The session's loading flag is not         *)
(* modelled: the form is rendered exactly when the session holds a user,   *)
(* which allows every behaviour that the guard "loading || !user" allows.  *)
(***************************************************************************)
\* the route renders Profile: useForm computes defaultValues from the
\* session user of this first render and keeps them
MountProfile ==
    /\ mounted \in {"Other", "Requests"}
    /\ mounted' = "Profile"
    /\ profileDefaults' = profileDefaultValues(user)
    /\ profileValues' = profileDefaultValues(user)
    /\ UNCHANGED <<sessionVars, gatewayVars, homeVars, newRequestVars,
                   profileSubmitted, isUpdating, updateCalls, lastUpdate,
                   toast>>

\* the "Update Profile" link of NewRequest, shown while the user has no
\* location: navigate("/profile")
UpdateProfileLink ==
    /\ mounted = "NewRequest"
    /\ user /= NoUser
    /\ user.location = {}
    /\ mounted' = "Profile"
    /\ NewRequestUnmounted(createCalls)
    /\ profileDefaults' = profileDefaultValues(user)
    /\ profileValues' = profileDefaultValues(user)
    /\ UNCHANGED <<sessionVars, gatewayVars, homeVars, lastCreate,
                   profileSubmitted, isUpdating, updateCalls, lastUpdate,
                   toast>>

\* the router leaves the profile page
UnmountProfile ==
    /\ mounted = "Profile"
    /\ mounted' = "Other"
    /\ ProfileUnmounted
    /\ UNCHANGED <<sessionVars, gatewayVars, homeVars, newRequestVars,
                   lastUpdate, toast>>

\* formState.errors: empty until the first submit, and from then on the
\* resolver's errors of the current values (reValidateMode onChange)
profileErrors ==
    IF profileSubmitted THEN profileSchema(profileValues) ELSE {}

\* field.onChange; the form is rendered only while the session has a user
ProfileChange(v) ==
    /\ mounted = "Profile"
    /\ user /= NoUser
    /\ v /= profileValues
    /\ profileValues' = v
    /\ UNCHANGED <<sessionVars, mounted, gatewayVars, homeVars, newRequestVars,
                   profileDefaults, profileSubmitted, isUpdating, updateCalls,
                   lastUpdate, toast>>

ChangeName(x) ==
    x \in NameInputs /\ ProfileChange([profileValues EXCEPT !.name = x])

ChangeEmail(x) ==
    x \in EmailInputs /\ ProfileChange([profileValues EXCEPT !.email = x])

ChangeAddress(x) ==
    x \in AddressInputs /\ ProfileChange([profileValues EXCEPT !.address = x])

\* onSubmit(data) of Profile up to its await
profileOnSubmit(data) ==
    IF user = NoUser
    THEN UNCHANGED <<isUpdating, updateCalls, lastUpdate>>
    ELSE /\ Len(updateCalls) < MaxUpdates
         /\ isUpdating' = TRUE
         /\ updateCalls' = Append(updateCalls, [live |-> TRUE])
         /\ lastUpdate' = updateCall(user, data)

\* form.handleSubmit(onSubmit) of Profile; the submit button is disabled
\* while isUpdating
ProfileHandleSubmit ==
    /\ mounted = "Profile"
    /\ user /= NoUser
    /\ ~isUpdating
    /\ profileSubmitted' = TRUE
    /\ IF profileSchema(profileValues) /= {}
       THEN UNCHANGED <<isUpdating, updateCalls, lastUpdate>>
       ELSE profileOnSubmit(profileValues)
    /\ UNCHANGED <<mounted, gatewayVars, homeVars, newRequestVars,
                   profileDefaults, profileValues, toast>>
    /\ UNCHANGED sessionVars

\* mutant: the flag is reset after the success toast only
FinallyUpdating_tryOnly(call, ok) ==
    IF call.live /\ ok THEN FALSE ELSE isUpdating

\* finally { setIsUpdating(false) }; a state setter of an unmounted
\* component instance does nothing
FinallyUpdating(call, ok) == IF call.live THEN FALSE ELSE isUpdating

\* the call resolved: the success toast, finally
UpdateResolve(i) ==
    /\ i \in 1..Len(updateCalls)
    /\ toast' = "Profile updated"
    /\ user' = userAfterUpdate(user, lastUpdate)
    /\ updateCalls' = RemoveAt(updateCalls, i)
    /\ isUpdating' = FinallyUpdating(updateCalls[i], TRUE)
    /\ UNCHANGED <<mounted, gatewayVars, homeVars, newRequestVars,
                   profileDefaults, profileValues, profileSubmitted,
                   lastUpdate>>

\* the call rejected: the destructive toast, finally
UpdateReject(i) ==
    /\ i \in 1..Len(updateCalls)
    /\ toast' = "Update failed"
    /\ updateCalls' = RemoveAt(updateCalls, i)
    /\ isUpdating' = FinallyUpdating(updateCalls[i], FALSE)
    /\ UNCHANGED <<sessionVars, mounted, gatewayVars, homeVars, newRequestVars,
                   profileDefaults, profileValues, profileSubmitted,
                   lastUpdate>>

Init ==
    /\ user \in Users \cup {NoUser}
    /\ mounted = "Other"
    /\ dbRequests \in RequestSeeds
    /\ dbAppointments \in AppointmentSeeds
    /\ requests = <<>>
    /\ appointments = <<>>
    /\ notifications = <<>>
    /\ loading = TRUE
    /\ runs = <<>>
    /\ values = defaultValues
    /\ isSubmitted = FALSE
    /\ errors = {}
    /\ isSubmitting = FALSE
    /\ createCalls = <<>>
    /\ lastCreate = NoCreate
    /\ profileDefaults = profileDefaultValues(NoUser)
    /\ profileValues = profileDefaultValues(NoUser)
    /\ profileSubmitted = FALSE
    /\ isUpdating = FALSE
    /\ updateCalls = <<>>
    /\ lastUpdate = NoUpdate
    /\ toast = "none"

NextHome ==
    \/ \E u \in Users \cup {NoUser} : SetUser(u)
    \/ MountHome
    \/ UnmountHome
    \/ \E i \in 1..MaxRuns : RequestsResolve(i)
    \/ \E i \in 1..MaxRuns : RequestsReject(i)
    \/ \E i \in 1..MaxRuns : AppointmentsResolve(i)
    \/ \E i \in 1..MaxRuns : AppointmentsReject(i)
    \/ \E i \in 1..MaxRuns : NotificationsResolve(i)
    \/ \E i \in 1..MaxRuns : NotificationsReject(i)

SpecHome == Init /\ [][NextHome]_vars

\* a fetch of run i settles in this step
Settles(i) ==
    \/ RequestsResolve(i) \/ RequestsReject(i)
    \/ AppointmentsResolve(i) \/ AppointmentsReject(i)
    \/ NotificationsResolve(i) \/ NotificationsReject(i)

\* every fetch that was issued is settled by the gateway in the end, and the
\* event loop then runs the continuation that awaits it
FetchesSettle == \A i \in 1..MaxRuns : WF_vars(Settles(i))

\* the loading flag does not depend on what the gateway returns: the
\* gateway holds one content, two requests and four appointments
InitFairHome == Init /\ Len(dbRequests) = 2 /\ Len(dbAppointments) = 4

FairSpecHome == InitFairHome /\ [][NextHome]_vars /\ FetchesSettle

NextNewRequest ==
    \/ \E u \in Users \cup {NoUser} : SetUser(u)
    \/ MountNewRequest
    \/ Cancel
    \/ Back
    \/ \E x \in BloodTypeInputs : ChangeBloodType(x)
    \/ \E x \in QuantityInputs : ChangeQuantity(x)
    \/ \E x \in UrgencyInputs : ChangeUrgency(x)
    \/ \E x \in ExpireAtInputs : ChangeExpireAt(x)
    \/ HandleSubmit
    \/ \E i \in 1..MaxCalls : CreateResolve(i)
    \/ \E i \in 1..MaxCalls : CreateReject(i)

\* the form never reads the gateway's collections: they start empty here
InitNewRequest == Init /\ dbRequests = <<>> /\ dbAppointments = <<>>

SpecNewRequest == InitNewRequest /\ [][NextNewRequest]_vars

\* the profile page and the session
NextProfile ==
    \/ MountProfile
    \/ UnmountProfile
    \/ \E u \in Users \cup {NoUser} : SetUser(u)
    \/ \E x \in NameInputs : ChangeName(x)
    \/ \E x \in EmailInputs : ChangeEmail(x)
    \/ \E x \in AddressInputs : ChangeAddress(x)
    \/ ProfileHandleSubmit
    \/ \E i \in 1..MaxUpdates : UpdateResolve(i)
    \/ \E i \in 1..MaxUpdates : UpdateReject(i)

SpecProfile == InitNewRequest /\ [][NextProfile]_vars

\* the two forms together: mounting and leaving, the session, one field
\* change that makes each form's values valid or invalid, the submits and
\* the settling of the calls
NextForms ==
    \/ \E u \in Users \cup {NoUser} : SetUser(u)
    \/ MountNewRequest
    \/ Cancel
    \/ Back
    \/ UpdateProfileLink
    \/ \E x \in BloodTypeInputs \cap BloodType : ChangeBloodType(x)
    \/ HandleSubmit
    \/ \E i \in 1..MaxCalls : CreateResolve(i)
    \/ \E i \in 1..MaxCalls : CreateReject(i)
    \/ MountProfile
    \/ UnmountProfile
    \/ \E x \in NameInputs : ChangeName(x)
    \/ ProfileHandleSubmit
    \/ \E i \in 1..MaxUpdates : UpdateResolve(i)
    \/ \E i \in 1..MaxUpdates : UpdateReject(i)

SpecForms == InitNewRequest /\ [][NextForms]_vars

(***************************************************************************)
(* Properties of the dashboard, checked under SpecHome.                    *)
(***************************************************************************)

\* C1: whenever the dashboard is rendered for a requester, the derived
\* request set is exactly the stored requests whose requesterId is the
\* current user's id: none of another requester, none of their own missing.
C1_RequesterSeesOwnRequests ==
    (Rendered /\ user.role = REQUESTER) =>
        /\ Range(filteredRequests(user, requests))
             = {r \in Range(requests) : r.requesterId = user.id}
        /\ Len(filteredRequests(user, requests))
             = Cardinality({i \in 1..Len(requests) :
                              requests[i].requesterId = user.id})

C1_Witness ==
    /\ Rendered
    /\ user.role = REQUESTER
    /\ \E r \in Range(requests) : r.requesterId = user.id
    /\ \E r \in Range(requests) : r.requesterId /= user.id

\* C2: whenever the dashboard is rendered for a donor, the derived
\* appointment set is exactly the stored appointments whose donorId is the
\* current user's id.
C2_DonorSeesOwnAppointments ==
    (Rendered /\ user.role = DONOR) =>
        /\ Range(filteredAppointments(user, appointments))
             = {a \in Range(appointments) : a.donorId = user.id}
        /\ Len(filteredAppointments(user, appointments))
             = Cardinality({i \in 1..Len(appointments) :
                              appointments[i].donorId = user.id})

C2_Witness ==
    /\ Rendered
    /\ user.role = DONOR
    /\ \E a \in Range(appointments) : a.donorId = user.id
    /\ \E a \in Range(appointments) : a.donorId /= user.id

\* C3: the role filter leaves the other collections untouched: a donor gets
\* all stored requests, a requester all stored appointments, an
\* administrator both collections in full.
C3_OtherCollectionsUnfiltered ==
    Rendered =>
        /\ user.role \in {DONOR, ADMIN} =>
             filteredRequests(user, requests) = requests
        /\ user.role \in {REQUESTER, ADMIN} =>
             filteredAppointments(user, appointments) = appointments

C3_Witness ==
    /\ Rendered
    /\ user.role = DONOR
    /\ \E r \in Range(requests) : r.requesterId /= user.id
    /\ Len(filteredRequests(user, requests)) = Len(requests)

\* C4: the urgent requests are exactly the role-filtered requests whose
\* urgency is "high" or "critical" (never "low" or "medium"), and the urgent
\* count shown is the number of them.
C4_UrgentIffHighOrCritical ==
    Rendered =>
        LET shown == filteredRequests(user, requests)
            urgent == {r \in Range(shown) : r.urgency \in {"high", "critical"}}
        IN /\ Range(urgentRequests(user, requests)) = urgent
           /\ \A r \in Range(urgentRequests(user, requests)) :
                r.urgency \notin {"low", "medium"}
           /\ urgentCount(user, requests) = Cardinality(urgent)

C4_Witness ==
    /\ Rendered
    /\ \E r \in Range(filteredRequests(user, requests)) : r.urgency = "high"
    /\ \E r \in Range(filteredRequests(user, requests)) : r.urgency = "low"
    /\ urgentCount(user, requests) = 2

\* C5: at every evaluation instant, the upcoming appointments are exactly the
\* role-filtered appointments dated strictly after that instant; one dated at
\* the instant or before it is excluded.
C5_UpcomingIffStrictlyAfter ==
    Rendered =>
        \A now \in Instants :
            LET shown == filteredAppointments(user, appointments)
                upcoming == upcomingAppointments(user, appointments, now)
            IN /\ Range(upcoming) = {a \in Range(shown) : a.date > now}
               /\ \A a \in Range(shown) :
                    a.date <= now => a \notin Range(upcoming)

C5_Witness ==
    /\ Rendered
    /\ \E now \in Instants :
         LET shown == filteredAppointments(user, appointments)
             upcoming == upcomingAppointments(user, appointments, now)
         IN /\ \E a \in Range(shown) : a.date = now /\ a \notin Range(upcoming)
            /\ \E a \in Range(shown) : a.date < now
            /\ \E a \in Range(upcoming) : a.date = now + 1

(***************************************************************************)
(* Properties of the request-creation form, checked under SpecNewRequest.  *)
(***************************************************************************)
BelowMin(q) == q.n < 1 * q.d

AboveMax(q) == q.n > 10 * q.d

\* the fields of v that the specification's rules of the form reject
Offending(v) ==
    {f \in {"quantity"} : BelowMin(v.quantity) \/ AboveMax(v.quantity)}
    \cup {f \in {"bloodType"} : v.bloodType \notin BloodType}
    \cup {f \in {"urgency"} : v.urgency \notin UrgencyLevel}

\* input the specification calls valid: enumerated blood type and urgency,
\* an integer quantity from 1 to 10
ValidInput(v) ==
    /\ Offending(v) = {}
    /\ v.quantity.n % v.quantity.d = 0

\* C6: a submit whose quantity is below 1 or above 10, or whose blood type
\* or urgency is missing or not enumerated, gets an error on each such
\* field and goes no further: no create call, no toast, and the submitting
\* flag stays false.
C6_InvalidSubmitBlocked ==
    [][(HandleSubmit /\ Offending(values) /= {}) =>
          /\ \A f \in Offending(values) : \E e \in errors' : e.field = f
          /\ createCalls' = createCalls
          /\ lastCreate' = lastCreate
          /\ isSubmitting' = FALSE
          /\ toast' = toast]_vars

C6_Witness ==
    /\ mounted = "NewRequest"
    /\ isSubmitted
    /\ user /= NoUser
    /\ values.quantity = Num(11)
    /\ values.bloodType = "A+"
    /\ \E e \in errors : e.field = "quantity"
    /\ lastCreate = NoCreate
    /\ createCalls = <<>>
    /\ ~isSubmitting

\* C7: every submit of valid input by a signed-in user makes exactly one
\* create call, and the payload of the call has status "pending".
C7_ValidSubmitCreatesPending ==
    [][(HandleSubmit /\ ValidInput(values) /\ user /= NoUser) =>
          /\ Len(createCalls') = Len(createCalls) + 1
          /\ createCalls'[Len(createCalls')].live
          /\ lastCreate'.status = "pending"
          /\ lastCreate'.requesterId = user.id
          /\ lastCreate'.quantity = values.quantity]_vars

C7_Witness ==
    /\ mounted = "NewRequest"
    /\ isSubmitting
    /\ Len(createCalls) = 1
    /\ createCalls[1].live
    /\ lastCreate.status = "pending"
    /\ lastCreate.urgency = "critical"
    /\ lastCreate.quantity = Num(10)

\* C8: the validation accepts a quantity only if it is an integer from 1 to
\* 10: no create call carries a quantity that is not such an integer.
C8_CreatedQuantityIsInteger ==
    lastCreate /= NoCreate =>
        /\ lastCreate.quantity.n % lastCreate.quantity.d = 0
        /\ ~BelowMin(lastCreate.quantity)
        /\ ~AboveMax(lastCreate.quantity)

\* the placeholder location as the specification gives it
C9_Placeholder ==
    [latitude |-> 0, longitude |-> 0, address |-> "Unknown",
     city |-> "Unknown", state |-> "Unknown", zipCode |-> "00000",
     country |-> "Unknown"]

\* C9: the location of a create payload is the stored location of the user
\* who submitted, unchanged, when that user has one, and the placeholder
\* (0/0, "Unknown", "00000") exactly when the user has none.
C9_PayloadLocation ==
    lastCreate /= NoCreate =>
        \A u \in Users :
            u.id = lastCreate.requesterId =>
                /\ u.location /= {} => lastCreate.location \in u.location
                /\ u.location = {} => lastCreate.location = C9_Placeholder
                /\ lastCreate.location = C9_Placeholder <=> u.location = {}

C9_Witness ==
    /\ isSubmitting
    /\ lastCreate /= NoCreate
    /\ lastCreate.requesterId = user.id
    /\ user.location /= {}
    /\ lastCreate.location \in user.location
    /\ lastCreate.location.latitude = 18

\* C10: when a create call settles, the listing screen is navigated to if
\* and only if the call succeeded; after a failure the error notification
\* is shown, the screen and the form values stay as they were, the form can
\* be submitted again, and such a submit makes a new create call.
C10_NavigateIffSucceeded ==
    [][/\ \A i \in 1..Len(createCalls) :
            /\ CreateResolve(i) => mounted' = "Requests"
            /\ CreateReject(i) =>
                 /\ toast' = "Error"
                 /\ mounted' = mounted
                 /\ values' = values
                 /\ createCalls[i].live =>
                      mounted' = "NewRequest" /\ ~isSubmitting'
       /\ (toast = "Error" /\ HandleSubmit /\ ValidInput(values)
             /\ user /= NoUser) =>
            Len(createCalls') = Len(createCalls) + 1]_vars

C10_Witness ==
    /\ toast = "Error"
    /\ mounted = "NewRequest"
    /\ values.bloodType = "A+"
    /\ values.quantity = Num(10)
    /\ lastCreate.quantity = Num(10)
    /\ isSubmitting
    /\ Len(createCalls) = 1
    /\ createCalls[1].live

(***************************************************************************)
(* C11: a profile submit whose values fail validation (a name shorter than *)
(* two characters, or a malformed email) is blocked: the submit handler    *)
(* does not run, so no update call is issued, the submitting flag is not   *)
(* raised and no toast is shown.                                           *)
(***************************************************************************)
InvalidProfile(v) == Len(v.name) < 2 \/ ~IsEmail(v.email)

C11_InvalidProfileBlocked ==
    [][(ProfileHandleSubmit /\ InvalidProfile(profileValues))
        => /\ updateCalls' = updateCalls
           /\ lastUpdate' = lastUpdate
           /\ isUpdating' = isUpdating
           /\ toast' = toast]_vars

\* a submit of a one-character name has been handled and no call was made
C11_Witness ==
    /\ mounted = "Profile"
    /\ profileSubmitted
    /\ Len(profileValues.name) = 1
    /\ IsEmail(profileValues.email)
    /\ profileErrors /= {}
    /\ lastUpdate = NoUpdate
    /\ updateCalls = <<>>

(***************************************************************************)
(* C12: each submit of the profile form with valid input by a signed-in    *)
(* user produces exactly one update call, for that user.  As stated, the   *)
(* payload of the call holds the fields of the profile schema and no       *)
(* other; the code also sends the latitude and longitude of the location.  *)
(***************************************************************************)
ValidProfile(v) == Len(v.name) >= 2 /\ IsEmail(v.email)

\* the fields of an update payload, those of its location object included
PayloadFields(d) == (DOMAIN d \ {"location"}) \cup DOMAIN d.location

\* as stated: no field outside the profile schema is sent
C12_OnlySchemaFields ==
    lastUpdate /= NoUpdate
        => PayloadFields(lastUpdate.data) \subseteq ProfileFields

\* as amended: one call per valid submit, whose payload holds exactly the
\* schema's fields and the two coordinates of the location
C12_OneCallSchemaFieldsAndCoordinates ==
    [][(ProfileHandleSubmit /\ ValidProfile(profileValues))
        => /\ Len(updateCalls') = Len(updateCalls) + 1
           /\ lastUpdate'.id = user.id
           /\ PayloadFields(lastUpdate'.data)
                = ProfileFields \cup {"latitude", "longitude"}]_vars

C12_Witness ==
    /\ mounted = "Profile"
    /\ isUpdating
    /\ Len(updateCalls) = 1
    /\ lastUpdate /= NoUpdate
    /\ lastUpdate.id = user.id
    /\ lastUpdate.data.name = <<"N", "o">>
    /\ "latitude" \in PayloadFields(lastUpdate.data)

(***************************************************************************)
(* C13: the location sent by a profile update keeps the latitude and       *)
(* longitude of the user's existing location, whatever address fields were *)
(* edited; the coordinates are 0/0 only when the user has no location.     *)
(***************************************************************************)
\* the coordinates of the location l
Coordinates(l) == <<l.latitude, l.longitude>>

C13_CoordinatesKept ==
    [][(ProfileHandleSubmit /\ ValidProfile(profileValues))
        => LET sent == Coordinates(lastUpdate'.data.location)
           IN /\ \A l \in user.location : sent = Coordinates(l)
              /\ user.location = {} => sent = <<0, 0>>
              /\ sent = <<0, 0>> => user.location = {}]_vars

\* an update that changed the address of a user who has coordinates
C13_Witness ==
    /\ lastUpdate /= NoUpdate
    /\ isUpdating
    /\ lastUpdate.id = user.id
    /\ lastUpdate.data.location.address = "9 New St"
    /\ \E l \in user.location :
          /\ l.address /= "9 New St"
          /\ Coordinates(l) = <<18, 73>>
          /\ Coordinates(lastUpdate.data.location) = <<18, 73>>

(***************************************************************************)
(* C14: each form follows idle -> submitting -> success|failure -> idle:   *)
(* the submitting flag (isSubmitting on the creation form, isUpdating on   *)
(* the profile form) is true exactly while a gateway call started by the   *)
(* mounted form has not settled, so it is false again after every          *)
(* submission, whether the call resolved or rejected.                      *)
(***************************************************************************)
\* a call of the mounted form instance is awaiting its settlement
Awaiting(calls) == \E i \in 1..Len(calls) : calls[i].live

C14_FlagIffCallUnsettled ==
    /\ isSubmitting <=> Awaiting(createCalls)
    /\ isUpdating <=> Awaiting(updateCalls)
    /\ isSubmitting => mounted = "NewRequest"
    /\ isUpdating => mounted = "Profile"

\* both forms have made a call; the profile's call rejected and the form is
\* idle again
C14_Witness ==
    /\ mounted = "Profile"
    /\ lastCreate /= NoCreate
    /\ lastUpdate /= NoUpdate
    /\ toast = "Update failed"
    /\ updateCalls = <<>>
    /\ ~isUpdating

(***************************************************************************)
(* C15: when a dashboard fetch rejects, the failure is only logged: no     *)
(* user-visible error is raised, and afterwards the dashboard's request,   *)
(* appointment and notification collections are empty, in every sequence   *)
(* of mounts, session-user changes and fetch outcomes.                     *)
(***************************************************************************)
\* a fetch of run i of the mounted dashboard rejects in this step
FetchRejects(i) ==
    /\ i \in 1..Len(runs)
    /\ runs[i].live
    /\ RequestsReject(i) \/ AppointmentsReject(i) \/ NotificationsReject(i)

C15_RejectLeavesEmptyCollections ==
    [][\A i \in 1..MaxRuns :
          FetchRejects(i)
            => /\ toast' = toast
               /\ requests' = <<>>
               /\ appointments' = <<>>
               /\ notifications' = <<>>]_vars

(***************************************************************************)
(* C16: a successful profile update leaves the session's current user      *)
(* unchanged: the update response is not written into the session, so the  *)
(* user read from the session afterwards holds the values from before the  *)
(* update, also where they differ from the values that were sent.          *)
(***************************************************************************)
C16_UpdateLeavesSessionUser ==
    [][(\E i \in 1..MaxUpdates : UpdateResolve(i)) => user' = user]_vars

\* the update succeeded and the session user still has the old name
C16_Witness ==
    /\ toast = "Profile updated"
    /\ lastUpdate /= NoUpdate
    /\ lastUpdate.id = user.id
    /\ lastUpdate.data.name = <<"N", "o">>
    /\ user.name = <<"D", "a", "n", "a">>
    /\ updateCalls = <<>>

(***************************************************************************)
(* C17: the lower bound on the expiry date is not part of validation: a    *)
(* submit that is otherwise valid and carries an expiry date of today or   *)
(* earlier passes validation and issues the create call with that date.    *)
(* The date input's min attribute is the day after the render that drew    *)
(* it; the date of ExpireAtInputs satisfies it at instant 0 and is today   *)
(* or earlier at every later instant, at which the form may be submitted.  *)
(***************************************************************************)
\* the expiry of the form values v is the day of instant today or earlier
ExpiryNotAfter(v, today) == Truthy(v.expireAt) /\ ParseDate(v.expireAt) <= today

C17_PastExpiryPassesValidation ==
    [][\A today \in Instants :
          (/\ HandleSubmit
           /\ ValidInput(values)
           /\ user /= NoUser
           /\ ExpiryNotAfter(values, today))
            => /\ errors' = {}
               /\ Len(createCalls') = Len(createCalls) + 1
               /\ lastCreate'.expireAt = {ParseDate(values.expireAt)}]_vars

\* a create call in flight carries an expiry that instant 1 has reached
C17_Witness ==
    /\ mounted = "NewRequest"
    /\ isSubmitting
    /\ Len(createCalls) = 1
    /\ errors = {}
    /\ ExpiryNotAfter(values, 1)
    /\ lastCreate /= NoCreate
    /\ lastCreate.expireAt = {1}

(***************************************************************************)
(* C18: within one dashboard fetch run, the notifications fetch is issued  *)
(* only after both the requests fetch and the appointments fetch have      *)
(* resolved; it is never issued while either of them is unsettled, and it  *)
(* is not issued when one of them rejects.                                 *)
(***************************************************************************)
\* the runs whose notifications fetch has been issued
NotificationFetches(rs) == {i \in 1..Len(rs) : rs[i].nt /= "none"}

C18_NotificationsAfterJoin ==
    /\ [](\A i \in NotificationFetches(runs) :
             runs[i].rq = "ok" /\ runs[i].ap = "ok")
    /\ [][\A i \in 1..MaxRuns :
             (RequestsReject(i) \/ AppointmentsReject(i))
               => /\ i \notin NotificationFetches(runs)
                  /\ Len(runs') = Len(runs) - 1
                  /\ Cardinality(NotificationFetches(runs'))
                       = Cardinality(NotificationFetches(runs))]_vars

\* a run awaits its notifications while a later run still awaits the join
C18_Witness ==
    /\ mounted = "Home"
    /\ Len(runs) = 2
    /\ runs[1].nt = "pending"
    /\ runs[1].rq = "ok"
    /\ runs[1].ap = "ok"
    /\ runs[2].nt = "none"
    /\ runs[2].rq = "ok"
    /\ runs[2].ap = "pending"

(***************************************************************************)
(* C19: no dashboard state variable (requests, appointments,               *)
(* notifications, loading) is written by two fetch runs that are in flight *)
(* at the same time: when the session user changes while a run is pending, *)
(* the earlier run does not write the dashboard state after the later run  *)
(* has started.                                                            *)
(***************************************************************************)
C19_EarlierRunDoesNotWrite ==
    [][\A i \in 1..MaxRuns : \A j \in 1..MaxRuns :
          (/\ i < j
           /\ j <= Len(runs)
           /\ runs[i].live
           /\ runs[j].live
           /\ Settles(i))
            => UNCHANGED <<requests, appointments, notifications, loading>>]_vars

(***************************************************************************)
(* C20: a valid profile submit merges only the edited fields: for every    *)
(* profile field the user did not edit, the value sent in the update call  *)
(* equals the value the user record holds at submit time, also when the    *)
(* profile screen was mounted before the session user had loaded.  A       *)
(* missing value and an empty text are taken to be equal.                  *)
(***************************************************************************)
Blank(x) == x \in {"", Undefined, <<>>}

SameValue(a, b) == a = b \/ (Blank(a) /\ Blank(b))

LocationKeys == {"address", "city", "state", "zipCode", "country"}

\* the value the user record u holds for the profile field f
RecordValue(u, f) ==
    IF f \in LocationKeys
    THEN IF u.location = {} THEN Undefined
         ELSE (CHOOSE l \in u.location : TRUE)[f]
    ELSE u[f]

\* the value the update payload d holds for the profile field f
SentValue(d, f) == IF f \in LocationKeys THEN d.location[f] ELSE d[f]

\* the fields whose value is the one the form was mounted with
Unedited == {f \in ProfileFields : profileValues[f] = profileDefaults[f]}

C20_UneditedFieldsKeepRecordValue ==
    [][(ProfileHandleSubmit /\ ValidProfile(profileValues))
        => \A f \in Unedited :
              SameValue(SentValue(lastUpdate'.data, f), RecordValue(user, f))]_vars

(***************************************************************************)
(* C21: a dashboard fetch run is all-or-nothing: if any of its three       *)
(* fetches (requests, appointments, notifications) rejects, the run        *)
(* updates none of the three stored collections; when the third of them    *)
(* resolves it updates all three with what it fetched; no step of a run    *)
(* stores notifications without requests and appointments, or the reverse. *)
(***************************************************************************)
\* run i of the mounted dashboard stores everything it fetched
StoresAll(i) ==
    /\ requests' = runs[i].requestsData
    /\ appointments' = runs[i].appointmentsData
    /\ notifications' = getNotifications(runs[i].user.id)

StoresNothing == UNCHANGED <<requests, appointments, notifications>>

C22_NotificationsOfCurrentUser ==
    Rendered =>
        \/ notifications = <<>>
        \/ notifications = getNotifications(user.id)

(***************************************************************************)
(* C23: given that every issued fetch eventually resolves or rejects, the  *)
(* loading flag of a mounted dashboard eventually becomes false, whether   *)
(* all fetches succeed, a fetch fails or the session has no user, unless   *)
(* the dashboard is left first; and once false the flag does not become    *)
(* true again while the dashboard stays mounted.                           *)
(***************************************************************************)
C23_LoadingEndsAndStaysFalse ==
    /\ (mounted = "Home") ~> (~loading \/ mounted /= "Home")
    /\ [][(mounted = "Home" /\ ~loading /\ mounted' = "Home")
            => ~loading']_vars

\* a run failed and the spinner is gone: nothing was stored
C23_Witness ==
    /\ mounted = "Home"
    /\ user /= NoUser
    /\ ~loading
    /\ runs = <<>>
    /\ dbRequests /= <<>>
    /\ requests = <<>>

(***************************************************************************)
(* C24: on each form at most one gateway call is in flight at any time:    *)
(* while the submitting flag is true the submit control is disabled, so no *)
(* second create call (creation form) or update call (profile form) is     *)
(* issued before the previous one has settled.                             *)
(***************************************************************************)
C24_AtMostOneCallInFlight ==
    /\ Len(createCalls) <= 1
    /\ Len(updateCalls) <= 1

(***************************************************************************)
(* C25: a request created through the creation form by user U carries      *)
(* requesterId equal to U's id and requesterName equal to U's name, so     *)
(* once the gateway returns it among the fetched requests it belongs to    *)
(* the derived request set of U's requester dashboard and to no other      *)
(* requester's derived set.                                                *)
(***************************************************************************)
\* every user identity of the session, seen as a requester
Requesters == {[u EXCEPT !.role = REQUESTER] : u \in Users}

\* the request is in the derived request set of v's dashboard when the
\* gateway returns it among the fetched requests
InDerivedSet(request, v) ==
    request \in Range(filteredRequests(v, <<request>>))

C25_CreatedRequestBelongsToCreator ==
    [][(HandleSubmit /\ ValidInput(values) /\ user /= NoUser)
        => /\ lastCreate'.requesterId = user.id
           /\ lastCreate'.requesterName = user.name
           /\ \A v \in Requesters :
                 InDerivedSet(lastCreate', v) <=> v.id = user.id]_vars

\* a request of user 1 is being created while user 1 is signed in
C25_Witness ==
    /\ mounted = "NewRequest"
    /\ isSubmitting
    /\ lastCreate /= NoCreate
    /\ user.id = "1"
    /\ lastCreate.requesterId = "1"
    /\ lastCreate.requesterName = <<"D", "a", "n", "a">>
    /\ \E v \in Requesters : v.id = "1" /\ InDerivedSet(lastCreate, v)
    /\ \E v \in Requesters : v.id = "2" /\ ~InDerivedSet(lastCreate, v)

(***************************************************************************)
(* C26: while the session has no current user, no screen calls the Data    *)
(* Gateway: the dashboard issues no fetch, and a submit on either form     *)
(* returns without a create or update call, without showing a              *)
(* notification, without navigating and without changing the submitting    *)
(* flag.                                                                   *)
(***************************************************************************)
\* this step issues a fetch: a new run starts with its two fetches, or a
\* run that has joined issues its notifications fetch
IssuesFetch ==
    \/ Len(runs') > Len(runs)
    \/ \E i \in 1..Len(runs) :
          /\ i <= Len(runs')
          /\ runs[i].nt = "none"
          /\ runs'[i].nt = "pending"

C26_NoGatewayCallWithoutUser ==
    [][(user = NoUser /\ user' = NoUser)
        => /\ ~IssuesFetch
           /\ Len(createCalls') <= Len(createCalls)
           /\ Len(updateCalls') <= Len(updateCalls)
           /\ (HandleSubmit \/ ProfileHandleSubmit)
                => UNCHANGED <<toast, mounted, isSubmitting, isUpdating>>]_vars

====
